---- MODULE Spec2Model ----
(***************************************************************************)
(* Model of the DS3231 real-time-clock protocol decoder (ds3231/pd.py).    *)
(*                                                                         *)
(* The decoder object is the record `self`; its fields carry the names of  *)
(* the Python attributes.  Every handler of the source is an operator from *)
(* the decoder record (and the byte / direction it is called with) to the  *)
(* decoder record after the call, written statement by statement.  The     *)
(* annotations a call emits with self.put are appended to the field `out`, *)
(* which decode() empties when it is entered, so `self.out` is what the    *)
(* last primitive emitted.                                                 *)
(*                                                                         *)
(* Python's -1 sentinels are kept as -1 for the integer attributes; for    *)
(* the attributes that otherwise hold strings (ampm, a1ampm, a2ampm) the   *)
(* sentinel is the string "-1", which is also how '%s' renders it.         *)
(***************************************************************************)
EXTENDS Integers, Sequences, FiniteSets, TLC

VARIABLES
    self,    \* the Decoder object
    hist,    \* observer: the non-BITS primitives received so far, while they
             \* are a prefix of one of the Scenarios; OffScript afterwards
    log,     \* observer: every annotation emitted so far, while on a scenario
    first7,  \* observer: summary of the first seven dispatched data bytes
    run,     \* observer: the pointer last set and the dispatches since
    last,    \* observer: the data bytes dispatched by the host of SpecByte
    armed,   \* observer (SpecBlock): the block categories whose first register
             \* has been dispatched since their last block event
    blocks,  \* observer (SpecSweep): the block events emitted so far, each
             \* with the register whose dispatch emitted it
    seen     \* observer (SpecBlock): for each register the byte last
             \* dispatched to it and the start of this dispatch

vars == <<self, hist, log, first7, run, last, armed, blocks, seen>>

----------------------------------------------------------------------------
(* Bounds of the model.                                                    *)

\* Sample number after which the host delivers no further primitive.
MaxSample == 8

\* The same, for the host of SpecDT.
MaxSampleDT == 13

\* The same, for the host of SpecByte.
MaxSampleByte == 4

\* The same, for the host of SpecBlock.
MaxSampleBlock == 14

\* The same, for the host of SpecSweep.
MaxSampleSweep == 22

----------------------------------------------------------------------------
(* Static tables of the source.                                            *)

DS3231_I2C_ADDRESS == 104   \* 0x68

days_of_week(fdw) ==
    CASE fdw = "Monday"   -> <<"Monday", "Tuesday", "Wednesday", "Thursday",
                               "Friday", "Saturday", "Sunday">>
      [] fdw = "Sunday"   -> <<"Sunday", "Monday", "Tuesday", "Wednesday",
                               "Thursday", "Friday", "Saturday">>
      [] fdw = "Saturday" -> <<"Saturday", "Sunday", "Monday", "Tuesday",
                               "Wednesday", "Thursday", "Friday">>

rates(i) ==
    CASE i = 0 -> "1Hz" [] i = 1 -> "1024Hz" [] i = 2 -> "4096Hz" [] i = 3 -> "8192Hz"

\* Mutant of PyIndex: the index is taken one entry too early.
PyIndex_early(t, i) == t[((i - 1 + Len(t)) % Len(t)) + 1]

\* Python tuple indexing t[i] of a 7-tuple for -7 <= i <= 6: a negative index
\* counts from the end.  (i is days - 1 with days in 0..7.)
PyIndex(t, i) == t[((i + Len(t)) % Len(t)) + 1]

\* common.srdhelper.bcd2int
bcd2int(b) == (b % 16) + ((b \div 16) * 10)

\* b & (1 << i), as 0 or 1
Bit(b, i) == (b \div (2 ^ i)) % 2

\* Mutant of Low: the mask is one bit too wide.
Low_wide(b, n) == b % (2 ^ (n + 1))

\* b & (2^n - 1)
Low(b, n) == b % (2 ^ n)

----------------------------------------------------------------------------
(* Annotation output.                                                      *)

Event(start, end, ann, val) == [ss |-> start, es |-> end, ann |-> ann, val |-> val]

\* self.put(ss, es, self.out_ann, data)
put(d, start, end, ann, val) ==
    [d EXCEPT !.out = Append(@, Event(start, end, ann, val))]

\* Mutant of BitsMissing: one entry more than needed is demanded.
BitsMissing_strict(d, bit) == Len(d.bits) < bit + 2

\* self.bits[bit] raises IndexError when fewer than bit + 1 entries are buffered.
BitsMissing(d, bit) == Len(d.bits) < bit + 1

\* Mutant of putd: the annotation spans the primitive.
putd_primitive(d, bit1, bit2, ann, val) ==
    IF d.failed \/ BitsMissing(d, bit1) \/ BitsMissing(d, bit2)
    THEN [d EXCEPT !.failed = TRUE]
    ELSE put(d, d.ss, d.es, ann, val)

\* Decoder.putd: the annotation spans bits bit1 (start) .. bit2 (end).
putd(d, bit1, bit2, ann, val) ==
    IF d.failed \/ BitsMissing(d, bit1) \/ BitsMissing(d, bit2)
    THEN [d EXCEPT !.failed = TRUE]
    ELSE put(d, d.bits[bit1 + 1].ss, d.bits[bit2 + 1].es, ann, val)

\* Decoder.putr
putr(d, bit) ==
    IF d.failed \/ BitsMissing(d, bit)
    THEN [d EXCEPT !.failed = TRUE]
    ELSE put(d, d.bits[bit + 1].ss, d.bits[bit + 1].es, "BIT_RESERVED", <<>>)

RECURSIVE putrs(_, _)
\* for i in (...): self.putr(i)
putrs(d, bitlist) ==
    IF bitlist = <<>> THEN d ELSE putrs(putr(d, Head(bitlist)), Tail(bitlist))

----------------------------------------------------------------------------
(* Decoder.reset and Decoder.start.                                        *)

reset ==
    [ state |-> "IDLE", bits |-> <<>>,
      seconds |-> -1, minutes |-> -1, ampm |-> "-1", hours |-> -1,
      days |-> -1, date |-> -1, months |-> -1,
      a1m1 |-> -1, al1seconds |-> -1, a1m2 |-> -1, al1minutes |-> -1,
      a1m3 |-> -1, a1ampm |-> "-1", al1hours |-> -1,
      a2m2 |-> -1, al2minutes |-> -1, a2m3 |-> -1, a2ampm |-> "-1",
      al2hours |-> -1,
      tempMSB |-> -1,
      startreg |-> -1, inblock |-> -1, blockmode |-> "" ]

----------------------------------------------------------------------------
(* Register handlers, 0x00 .. 0x06: date and time.                         *)

\* Mutant of InBlockStep: the predecessor index is not compared.
InBlockStep_nopred(d, rw, pred, nxt) ==
    IF d.blockmode = rw THEN nxt ELSE -1

\* self.inblock = nxt if self.inblock == pred and self.blockmode == rw else -1
InBlockStep(d, rw, pred, nxt) ==
    IF d.inblock = pred /\ d.blockmode = rw THEN nxt ELSE -1

handle_reg_0x00(d, b, rw) ==   \* Seconds
    LET d1 == putd(d, 7, 0, "REG_SECONDS", <<>>)
        d2 == [d1 EXCEPT !.seconds = bcd2int(Low(b, 7))]
        d3 == putr(d2, 7)
        d4 == putd(d3, 6, 0, "BIT_SECONDS", <<d2.seconds>>)
    IN  [d4 EXCEPT !.startreg = d.ss, !.inblock = 0, !.blockmode = rw]

handle_reg_0x01(d, b, rw) ==   \* Minutes
    LET d1 == putd(d, 7, 0, "REG_MINUTES", <<>>)
        d2 == putr(d1, 7)
        d3 == [d2 EXCEPT !.minutes = bcd2int(Low(b, 7))]
        d4 == putd(d3, 6, 0, "BIT_MINUTES", <<d3.minutes>>)
    IN  [d4 EXCEPT !.inblock = InBlockStep(d, rw, 0, 1)]

handle_reg_0x02(d, b, rw) ==   \* Hours
    LET d1 == putd(d, 7, 0, "REG_HOURS", <<>>)
        d2 == putr(d1, 7)
        d3 == IF Bit(b, 6) = 1
              THEN LET e1 == putd(d2, 6, 6, "BIT_12_24_HOURS", <<"12-hour mode">>)
                       e2 == [e1 EXCEPT !.ampm = IF Bit(b, 5) = 1 THEN "PM" ELSE "AM"]
                       e3 == putd(e2, 5, 5, "BIT_AM_PM", <<e2.ampm>>)
                       e4 == [e3 EXCEPT !.hours = bcd2int(Low(b, 5))]
                   IN  putd(e4, 4, 0, "BIT_HOURS", <<e4.hours>>)
              ELSE LET e1 == putd(d2, 6, 6, "BIT_12_24_HOURS", <<"24-hour mode">>)
                       e2 == [e1 EXCEPT !.ampm = "", !.hours = bcd2int(Low(b, 6))]
                   IN  putd(e2, 5, 0, "BIT_HOURS", <<e2.hours>>)
    IN  [d3 EXCEPT !.inblock = InBlockStep(d, rw, 1, 2)]

handle_reg_0x03(d, b, rw) ==   \* Day of week
    LET d1 == putd(d, 7, 0, "REG_DAY", <<>>)
        d2 == putrs(d1, <<7, 6, 5, 4, 3>>)
        d3 == [d2 EXCEPT !.days = bcd2int(Low(b, 3))]
        ws == PyIndex(days_of_week(d.options.fdw), d3.days - 1)
        d4 == putd(d3, 2, 0, "BIT_DAY", <<ws>>)
    IN  [d4 EXCEPT !.inblock = InBlockStep(d, rw, 2, 3)]

handle_reg_0x04(d, b, rw) ==   \* Date
    LET d1 == putd(d, 7, 0, "REG_DATE", <<>>)
        d2 == putrs(d1, <<7, 6>>)
        d3 == [d2 EXCEPT !.date = bcd2int(Low(b, 6))]
        d4 == putd(d3, 5, 0, "BIT_DATE", <<d3.date>>)
    IN  [d4 EXCEPT !.inblock = InBlockStep(d, rw, 3, 4)]

handle_reg_0x05(d, b, rw) ==   \* Month
    LET d1 == putd(d, 7, 0, "REG_MONTH", <<>>)
        century == IF Bit(b, 7) = 1 THEN 1 ELSE 0
        d2 == putd(d1, 7, 7, "BIT_CENTURY", <<century>>)
        d3 == putrs(d2, <<6, 5>>)
        d4 == [d3 EXCEPT !.months = bcd2int(Low(b, 5))]
        d5 == putd(d4, 4, 0, "BIT_MONTH", <<d4.months>>)
    IN  [d5 EXCEPT !.inblock = InBlockStep(d, rw, 4, 5)]

\* The text of a Date Time block annotation: '%s %s' % (rw, d)
DateTimeText(d, rw, year) ==
    [ rw |-> rw,
      weekday |-> PyIndex(days_of_week(d.options.fdw), d.days - 1),
      date |-> d.date, months |-> d.months, year |-> year,
      hours |-> d.hours, minutes |-> d.minutes, seconds |-> d.seconds,
      ampm |-> d.ampm ]

\* Mutant of DateTimeComplete: the predecessor index is one too high.
DateTimeComplete_late(d, rw) == d.inblock = 6 /\ d.blockmode = rw

\* if self.inblock == 5 and self.blockmode == rw
DateTimeComplete(d, rw) == d.inblock = 5 /\ d.blockmode = rw

handle_reg_0x06(d, b, rw) ==   \* Year
    LET d1 == putd(d, 7, 0, "REG_YEAR", <<>>)
        y == bcd2int(Low(b, 8))
        year == y + 2000
        d2 == putd(d1, 7, 0, "BIT_YEAR", <<year>>)
        d3 == IF DateTimeComplete(d, rw)
              THEN put(d2, d.startreg, d.es, "BLOCK_DATE_TIME", DateTimeText(d, rw, year))
              ELSE d2
    IN  [d3 EXCEPT !.inblock = -1]

----------------------------------------------------------------------------
(* Register handlers, 0x07 .. 0x0a: alarm 1.                               *)

handle_reg_0x07(d, b, rw) ==   \* Alarm1 Seconds
    LET d1 == putd(d, 7, 0, "REG_ALARM1_SECONDS", <<>>)
        d2 == [d1 EXCEPT !.a1m1 = IF Bit(b, 7) = 1 THEN 1 ELSE 0]
        d3 == putd(d2, 7, 7, "BIT_A1M1", <<d2.a1m1>>)
        d4 == [d3 EXCEPT !.al1seconds = bcd2int(Low(b, 7))]
        d5 == putd(d4, 6, 0, "BIT_SECONDS", <<d4.al1seconds>>)
    IN  [d5 EXCEPT !.startreg = d.ss, !.inblock = 7, !.blockmode = rw]

handle_reg_0x08(d, b, rw) ==   \* Alarm1 Minutes
    LET d1 == putd(d, 7, 0, "REG_ALARM1_MINUTES", <<>>)
        d2 == [d1 EXCEPT !.a1m2 = IF Bit(b, 7) = 1 THEN 1 ELSE 0]
        d3 == putd(d2, 7, 7, "BIT_A1M2", <<d2.a1m2>>)
        d4 == [d3 EXCEPT !.al1minutes = bcd2int(Low(b, 7))]
        d5 == putd(d4, 6, 0, "BIT_MINUTES", <<d4.al1minutes>>)
    IN  [d5 EXCEPT !.inblock = InBlockStep(d, rw, 7, 8)]

handle_reg_0x09(d, b, rw) ==   \* Alarm1 Hours
    LET d1 == putd(d, 7, 0, "REG_ALARM1_HOURS", <<>>)
        d2 == [d1 EXCEPT !.a1m3 = IF Bit(b, 7) = 1 THEN 1 ELSE 0]
        d3 == putd(d2, 7, 7, "BIT_A1M3", <<d2.a1m3>>)
        d4 == IF Bit(b, 6) = 1
              THEN LET e1 == putd(d3, 6, 6, "BIT_12_24_HOURS", <<"12-hour mode">>)
                       e2 == [e1 EXCEPT !.a1ampm = IF Bit(b, 5) = 1 THEN "PM" ELSE "AM"]
                       e3 == putd(e2, 5, 5, "BIT_AM_PM", <<e2.a1ampm>>)
                       e4 == [e3 EXCEPT !.al1hours = bcd2int(Low(b, 5))]
                   IN  putd(e4, 4, 0, "BIT_HOURS", <<e4.al1hours>>)
              ELSE LET e1 == putd(d3, 6, 6, "BIT_12_24_HOURS", <<"24-hour mode">>)
                       e2 == [e1 EXCEPT !.a1ampm = "", !.al1hours = bcd2int(Low(b, 6))]
                   IN  putd(e2, 5, 0, "BIT_HOURS", <<e2.al1hours>>)
    IN  [d4 EXCEPT !.inblock = InBlockStep(d, rw, 8, 9)]

\* Mutant of Alarm1Text: the ladder tests A1M4 only for the daily case, so
\* (0, 0, 0, 0) is never reached and (1, 0, 0, 1) counts as daily.
Alarm1Text_loose(d, a1m4, a1dydt, ws, da) ==
    LET m == <<d.a1m1, d.a1m2, d.a1m3, a1m4>>
    IN  IF m = <<1, 1, 1, 1>> THEN
            [mode |-> "every second"]
        ELSE IF m = <<0, 1, 1, 1>> THEN
            [mode |-> "every minute", seconds |-> d.al1seconds]
        ELSE IF m = <<0, 0, 1, 1>> THEN
            [mode |-> "every hour", minutes |-> d.al1minutes, seconds |-> d.al1seconds]
        ELSE IF <<d.a1m2, d.a1m3, a1m4>> = <<0, 0, 1>> THEN
            [mode |-> "daily", hours |-> d.al1hours, minutes |-> d.al1minutes,
             seconds |-> d.al1seconds, ampm |-> d.a1ampm]
        ELSE
            [mode |-> "invalid setting"]

\* The if / elif ladder over (self.a1m1, self.a1m2, self.a1m3, a1m4).
\* ws is read only when a1dydt == 1 and da only when it is 0.
Alarm1Text(d, a1m4, a1dydt, ws, da) ==
    LET m == <<d.a1m1, d.a1m2, d.a1m3, a1m4>>
    IN  IF m = <<1, 1, 1, 1>> THEN
            [mode |-> "every second"]
        ELSE IF m = <<0, 1, 1, 1>> THEN
            [mode |-> "every minute", seconds |-> d.al1seconds]
        ELSE IF m = <<0, 0, 1, 1>> THEN
            [mode |-> "every hour", minutes |-> d.al1minutes, seconds |-> d.al1seconds]
        ELSE IF m = <<0, 0, 0, 1>> THEN
            [mode |-> "daily", hours |-> d.al1hours, minutes |-> d.al1minutes,
             seconds |-> d.al1seconds, ampm |-> d.a1ampm]
        ELSE IF m = <<0, 0, 0, 0>> THEN
            [mode |-> IF a1dydt = 1 THEN "weekday" ELSE "day of month",
             daydate |-> IF a1dydt = 1 THEN <<ws>> ELSE <<da>>,
             hours |-> d.al1hours, minutes |-> d.al1minutes, seconds |-> d.al1seconds]
        ELSE
            [mode |-> "invalid setting"]

handle_reg_0x0a(d, b, rw) ==   \* Alarm1 Date or Day of week
    LET d1 == putd(d, 7, 0, "REG_ALARM1_DAY_DATE", <<>>)
        a1m4 == IF Bit(b, 7) = 1 THEN 1 ELSE 0
        d2 == putd(d1, 7, 7, "BIT_A1M4", <<a1m4>>)
        a1dydt == IF Bit(b, 6) = 1 THEN 1 ELSE 0
        d3 == putd(d2, 6, 6, "BIT_DAY_DATE", <<a1dydt>>)
        w == bcd2int(Low(b, 3))
        ws == PyIndex(days_of_week(d.options.fdw), w - 1)
        da == bcd2int(Low(b, 6))
        d4 == IF a1dydt = 1
              THEN putd(d3, 2, 0, "BIT_DAY", <<ws>>)
              ELSE putd(d3, 5, 0, "BIT_DATE", <<da>>)
        d5 == IF d.inblock = 9 /\ d.blockmode = rw
              THEN put(d4, d.startreg, d.es, "BLOCK_ALARM1",
                       [rw |-> rw, text |-> Alarm1Text(d, a1m4, a1dydt, ws, da)])
              ELSE d4
    IN  [d5 EXCEPT !.inblock = -1]

----------------------------------------------------------------------------
(* Register handlers, 0x0b .. 0x0d: alarm 2.                               *)

handle_reg_0x0b(d, b, rw) ==   \* Alarm2 Minutes
    LET d1 == putd(d, 7, 0, "REG_ALARM2_MINUTES", <<>>)
        d2 == [d1 EXCEPT !.a2m2 = IF Bit(b, 7) = 1 THEN 1 ELSE 0]
        d3 == putd(d2, 7, 7, "BIT_A2M2", <<d2.a2m2>>)
        d4 == [d3 EXCEPT !.al2minutes = bcd2int(Low(b, 7))]
        d5 == putd(d4, 6, 0, "BIT_MINUTES", <<d4.al2minutes>>)
    IN  [d5 EXCEPT !.startreg = d.ss, !.inblock = 11, !.blockmode = rw]

handle_reg_0x0c(d, b, rw) ==   \* Alarm2 Hours
    LET d1 == putd(d, 7, 0, "REG_ALARM2_HOURS", <<>>)
        d2 == [d1 EXCEPT !.a2m3 = IF Bit(b, 7) = 1 THEN 1 ELSE 0]
        d3 == putd(d2, 7, 7, "BIT_A2M3", <<d2.a2m3>>)
        d4 == IF Bit(b, 6) = 1
              THEN LET e1 == putd(d3, 6, 6, "BIT_12_24_HOURS", <<"12-hour mode">>)
                       e2 == [e1 EXCEPT !.a2ampm = IF Bit(b, 5) = 1 THEN "PM" ELSE "AM"]
                       e3 == putd(e2, 5, 5, "BIT_AM_PM", <<e2.a2ampm>>)
                       e4 == [e3 EXCEPT !.al2hours = bcd2int(Low(b, 5))]
                   IN  putd(e4, 4, 0, "BIT_HOURS", <<e4.al2hours>>)
              ELSE LET e1 == putd(d3, 6, 6, "BIT_12_24_HOURS", <<"24-hour mode">>)
                       e2 == [e1 EXCEPT !.a2ampm = "", !.al2hours = bcd2int(Low(b, 6))]
                   IN  putd(e2, 5, 0, "BIT_HOURS", <<e2.al2hours>>)
    IN  [d4 EXCEPT !.inblock = InBlockStep(d, rw, 11, 12)]

\* Mutant of Alarm2Text: the ladder tests A2M2 only for the first case, so
\* (1, 0, 1) counts as every day and (1, 0, 0) as a day or date.
Alarm2Text_loose(d, a2m4, a2dydt, ws, da) ==
    LET m == <<d.a2m2, d.a2m3, a2m4>>
    IN  IF m = <<1, 1, 1>> THEN
            [mode |-> "every minute"]
        ELSE IF m = <<0, 1, 1>> THEN
            [mode |-> "every hour", minutes |-> d.al2minutes]
        ELSE IF <<d.a2m3, a2m4>> = <<0, 1>> THEN
            [mode |-> "every day", hours |-> d.al2hours, minutes |-> d.al2minutes,
             ampm |-> d.a2ampm]
        ELSE IF <<d.a2m3, a2m4>> = <<0, 0>> THEN
            [mode |-> IF a2dydt = 1 THEN "weekday" ELSE "day of month",
             daydate |-> IF a2dydt = 1 THEN <<ws>> ELSE <<da>>,
             hours |-> d.al2hours, minutes |-> d.al2minutes]
        ELSE
            [mode |-> "invalid setting"]

\* The if / elif ladder over (self.a2m2, self.a2m3, a2m4).
Alarm2Text(d, a2m4, a2dydt, ws, da) ==
    LET m == <<d.a2m2, d.a2m3, a2m4>>
    IN  IF m = <<1, 1, 1>> THEN
            [mode |-> "every minute"]
        ELSE IF m = <<0, 1, 1>> THEN
            [mode |-> "every hour", minutes |-> d.al2minutes]
        ELSE IF m = <<0, 0, 1>> THEN
            [mode |-> "every day", hours |-> d.al2hours, minutes |-> d.al2minutes,
             ampm |-> d.a2ampm]
        ELSE IF m = <<0, 0, 0>> THEN
            [mode |-> IF a2dydt = 1 THEN "weekday" ELSE "day of month",
             daydate |-> IF a2dydt = 1 THEN <<ws>> ELSE <<da>>,
             hours |-> d.al2hours, minutes |-> d.al2minutes]
        ELSE
            [mode |-> "invalid setting"]

handle_reg_0x0d(d, b, rw) ==   \* Alarm2 Date or Day of week
    LET d1 == putd(d, 7, 0, "REG_ALARM2_DAY_DATE", <<>>)
        a2m4 == IF Bit(b, 7) = 1 THEN 1 ELSE 0
        d2 == putd(d1, 7, 7, "BIT_A2M4", <<a2m4>>)
        a2dydt == IF Bit(b, 6) = 1 THEN 1 ELSE 0
        d3 == putd(d2, 6, 6, "BIT_DAY_DATE", <<a2dydt>>)
        w == bcd2int(Low(b, 3))
        ws == PyIndex(days_of_week(d.options.fdw), w - 1)
        da == bcd2int(Low(b, 6))
        d4 == IF a2dydt = 1
              THEN putd(d3, 2, 0, "BIT_DAY", <<ws>>)
              ELSE putd(d3, 5, 0, "BIT_DATE", <<da>>)
        d5 == IF d.inblock = 12 /\ d.blockmode = rw
              THEN put(d4, d.startreg, d.es, "BLOCK_ALARM2",
                       [rw |-> rw, text |-> Alarm2Text(d, a2m4, a2dydt, ws, da)])
              ELSE d4
    IN  [d5 EXCEPT !.inblock = -1]

----------------------------------------------------------------------------
(* Register handlers, 0x0e .. 0x12: control, status, aging, temperature.   *)

\* Mutant of handle_reg_0x0e: the rate is decoded for both subtypes.
handle_reg_0x0e_ungated(d, b, rw) ==
    LET d1 == putd(d, 7, 0, "REG_CONTROL", <<>>)
        eosc == IF Bit(b, 7) = 1 THEN 1 ELSE 0
        bbsqw == IF Bit(b, 6) = 1 THEN 1 ELSE 0
        bbsqw2 == IF Bit(b, 6) = 1 THEN "en" ELSE "dis"
        conv == IF Bit(b, 5) = 1 THEN 1 ELSE 0
        intcn2 == IF Bit(b, 5) = 1 THEN "alarm interrupt" ELSE "square wave"
        intcn == IF Bit(b, 2) = 1 THEN 1 ELSE 0
        a2ie == IF Bit(b, 1) = 1 THEN 1 ELSE 0
        a2ie2 == IF Bit(b, 1) = 1 THEN "en" ELSE "dis"
        a1ie == IF Bit(b, 0) = 1 THEN 1 ELSE 0
        a1ie2 == IF Bit(b, 0) = 1 THEN "en" ELSE "dis"
        d2 == putd(d1, 7, 7, "BIT__EOSC", <<eosc>>)
        d3 == putd(d2, 6, 6, "BIT_BBSQWE", <<bbsqw2, bbsqw>>)
        d4 == putd(d3, 5, 5, "BIT_CONV", <<conv>>)
        d5 == putd(d4, 4, 3, "BIT_RATE", <<rates((b \div 8) % 4)>>)
        d6 == putd(d5, 2, 2, "BIT_INTCN", <<intcn2, intcn>>)
        d7 == putd(d6, 1, 1, "BIT_A2IE", <<a2ie2, a2ie>>)
    IN  putd(d7, 0, 0, "BIT_A1IE", <<a1ie2, a1ie>>)

handle_reg_0x0e(d, b, rw) ==   \* Control Register
    LET d1 == putd(d, 7, 0, "REG_CONTROL", <<>>)
        eosc == IF Bit(b, 7) = 1 THEN 1 ELSE 0
        bbsqw == IF Bit(b, 6) = 1 THEN 1 ELSE 0
        bbsqw2 == IF Bit(b, 6) = 1 THEN "en" ELSE "dis"
        conv == IF Bit(b, 5) = 1 THEN 1 ELSE 0
        intcn2 == IF Bit(b, 5) = 1 THEN "alarm interrupt" ELSE "square wave"
        intcn == IF Bit(b, 2) = 1 THEN 1 ELSE 0
        a2ie == IF Bit(b, 1) = 1 THEN 1 ELSE 0
        a2ie2 == IF Bit(b, 1) = 1 THEN "en" ELSE "dis"
        a1ie == IF Bit(b, 0) = 1 THEN 1 ELSE 0
        a1ie2 == IF Bit(b, 0) = 1 THEN "en" ELSE "dis"
        d2 == putd(d1, 7, 7, "BIT__EOSC", <<eosc>>)
        d3 == putd(d2, 6, 6, "BIT_BBSQWE", <<bbsqw2, bbsqw>>)
        d4 == putd(d3, 5, 5, "BIT_CONV", <<conv>>)
        d5 == IF d.options.subtype = "SN"
              THEN putd(d4, 4, 3, "BIT_RATE", <<rates((b \div 8) % 4)>>)
              ELSE putr(putr(d4, 4), 3)
        d6 == putd(d5, 2, 2, "BIT_INTCN", <<intcn2, intcn>>)
        d7 == putd(d6, 1, 1, "BIT_A2IE", <<a2ie2, a2ie>>)
    IN  putd(d7, 0, 0, "BIT_A1IE", <<a1ie2, a1ie>>)

handle_reg_0x0f(d, b, rw) ==   \* Control / Status Register
    LET d1 == putd(d, 7, 0, "REG_CONTROL_STATUS", <<>>)
        d2 == putrs(d1, <<6, 5, 4>>)
        osf == IF Bit(b, 7) = 1 THEN 1 ELSE 0
        en32 == IF Bit(b, 3) = 1 THEN 1 ELSE 0
        bsy == IF Bit(b, 2) = 1 THEN 1 ELSE 0
        a2f == IF Bit(b, 1) = 1 THEN 1 ELSE 0
        a1f == IF Bit(b, 0) = 1 THEN 1 ELSE 0
        d3 == putd(d2, 7, 7, "BIT_OSF", <<osf>>)
        d4 == putd(d3, 3, 3, "BIT_EN32KHZ", <<en32>>)
        d5 == putd(d4, 2, 2, "BIT_BSY", <<bsy>>)
        d6 == putd(d5, 1, 1, "BIT_A2F", <<a2f>>)
    IN  putd(d6, 0, 0, "BIT_A1F", <<a1f>>)

handle_reg_0x10(d, b, rw) ==   \* Aging / Offset Register
    LET d1 == putd(d, 7, 0, "REG_AGING_OFFSET", <<>>)
        ao == IF b < 128 THEN b ELSE b - 256
    IN  putd(d1, 7, 0, "BIT_AOFS", <<ao>>)

\* Mutant of handle_reg_0x11: the byte is not stored.
handle_reg_0x11_nostore(d, b, rw) ==
    LET d1 == putd(d, 7, 0, "REG_TEMPERATURE_MSB", <<>>)
        tm == IF b < 128 THEN b ELSE b - 256
        d3 == putd(d1, 7, 0, "BIT_TMSB", <<tm>>)
    IN  [d3 EXCEPT !.startreg = d.ss, !.inblock = 17]

\* Mutant of handle_reg_0x11: the start of the block is not recorded.
handle_reg_0x11_nostart(d, b, rw) ==
    LET d1 == putd(d, 7, 0, "REG_TEMPERATURE_MSB", <<>>)
        d2 == [d1 EXCEPT !.tempMSB = b]
        tm == IF b < 128 THEN b ELSE b - 256
        d3 == putd(d2, 7, 0, "BIT_TMSB", <<tm>>)
    IN  [d3 EXCEPT !.inblock = 17]

handle_reg_0x11(d, b, rw) ==   \* MSB of Temperature Register
    LET d1 == putd(d, 7, 0, "REG_TEMPERATURE_MSB", <<>>)
        d2 == [d1 EXCEPT !.tempMSB = b]
        tm == IF b < 128 THEN b ELSE b - 256
        d3 == putd(d2, 7, 0, "BIT_TMSB", <<tm>>)
    IN  [d3 EXCEPT !.startreg = d.ss, !.inblock = 17]

\* Mutant of Theta: the combined value is not made signed.
Theta_unsigned(tempMSB, tl) == (tempMSB * 4) + tl

\* theta = (self.tempMSB << 2) + tl; if theta >= 512: theta = theta - 1024
Theta(tempMSB, tl) ==
    LET theta == (tempMSB * 4) + tl
    IN  IF theta >= 512 THEN theta - 1024 ELSE theta

\* if self.inblock == 0x11
TemperatureComplete(d, rw) == d.inblock = 17

\* Mutant of handle_reg_0x12: the block index is left as it is.
handle_reg_0x12_noreset(d, b, rw) ==
    LET d1 == putd(d, 7, 0, "REG_TEMPERATURE_LSB", <<>>)
        d2 == putrs(d1, <<0, 1, 2, 3, 4, 5>>)
        tl == b \div 64
        d3 == putd(d2, 7, 6, "BIT_TLSB", <<tl>>)
    IN  IF TemperatureComplete(d, rw)
        THEN put(d3, d.startreg, d.es, "BLOCK_TEMPERATURE",
                 [rw |-> rw, theta |-> Theta(d.tempMSB, tl)])
        ELSE d3

handle_reg_0x12(d, b, rw) ==   \* LSB of Temperature Register
    LET d1 == putd(d, 7, 0, "REG_TEMPERATURE_LSB", <<>>)
        d2 == putrs(d1, <<0, 1, 2, 3, 4, 5>>)
        tl == b \div 64
        d3 == putd(d2, 7, 6, "BIT_TLSB", <<tl>>)
        d4 == IF TemperatureComplete(d, rw)
              THEN put(d3, d.startreg, d.es, "BLOCK_TEMPERATURE",
                       [rw |-> rw, theta |-> Theta(d.tempMSB, tl)])
              ELSE d3
    IN  [d4 EXCEPT !.inblock = -1]

----------------------------------------------------------------------------
(* Dispatch.                                                               *)

\* fn = getattr(self, 'handle_reg_0x%02x' % self.reg); fn(b, rw)
fn(d, b, rw) ==
    CASE d.reg = 0  -> handle_reg_0x00(d, b, rw)
      [] d.reg = 1  -> handle_reg_0x01(d, b, rw)
      [] d.reg = 2  -> handle_reg_0x02(d, b, rw)
      [] d.reg = 3  -> handle_reg_0x03(d, b, rw)
      [] d.reg = 4  -> handle_reg_0x04(d, b, rw)
      [] d.reg = 5  -> handle_reg_0x05(d, b, rw)
      [] d.reg = 6  -> handle_reg_0x06(d, b, rw)
      [] d.reg = 7  -> handle_reg_0x07(d, b, rw)
      [] d.reg = 8  -> handle_reg_0x08(d, b, rw)
      [] d.reg = 9  -> handle_reg_0x09(d, b, rw)
      [] d.reg = 10 -> handle_reg_0x0a(d, b, rw)
      [] d.reg = 11 -> handle_reg_0x0b(d, b, rw)
      [] d.reg = 12 -> handle_reg_0x0c(d, b, rw)
      [] d.reg = 13 -> handle_reg_0x0d(d, b, rw)
      [] d.reg = 14 -> handle_reg_0x0e(d, b, rw)
      [] d.reg = 15 -> handle_reg_0x0f(d, b, rw)
      [] d.reg = 16 -> handle_reg_0x10(d, b, rw)
      [] d.reg = 17 -> handle_reg_0x11(d, b, rw)
      [] d.reg = 18 -> handle_reg_0x12(d, b, rw)

\* self.reg not in range(0, 0x13)
OutOfRange(r) == r \notin 0..18

\* Mutant of NextReg: no wrap-around.
NextReg_nowrap(r) == r + 1

\* Mutant of NextReg: the wrap-around comes one register late.
NextReg_late(r) == IF r + 1 > 19 THEN 0 ELSE r + 1

\* self.reg += 1; if self.reg > 0x12: self.reg = 0
NextReg(r) == IF r + 1 > 18 THEN 0 ELSE r + 1

\* Mutant of handle_reg: the pointer is advanced after the out-of-range
\* warning too.
handle_reg_advancing(d, b, rw) ==
    IF d.reg \notin 0..18
    THEN [put(d, d.ss, d.es, "WARNING", <<"Ignoring out-of-range register", d.reg>>)
            EXCEPT !.reg = IF d.reg + 1 > 18 THEN 0 ELSE d.reg + 1]
    ELSE LET r == fn(d, b, rw)
         IN  IF r.failed
             THEN [d EXCEPT !.failed = TRUE]
             ELSE [r EXCEPT !.reg = IF r.reg + 1 > 18 THEN 0 ELSE r.reg + 1]

\* Decoder.handle_reg.  Every handler starts with self.putd(7, 0, ...), so an
\* IndexError of self.bits is raised before the handler has assigned anything:
\* the exception leaves the decoder as it was and ends the session (failed).
handle_reg(d, b, rw) ==
    IF OutOfRange(d.reg)
    THEN put(d, d.ss, d.es, "WARNING", <<"Ignoring out-of-range register", d.reg>>)
    ELSE LET r == fn(d, b, rw)
         IN  IF r.failed
             THEN [d EXCEPT !.failed = TRUE]
             ELSE [r EXCEPT !.reg = NextReg(r.reg)]

\* Mutant of is_correct_chip: only bit 6 of the address is compared, so
\* 0x50 passes too.
is_correct_chip_masked(addr) == (addr \div 64) % 2 = (104 \div 64) % 2

\* Decoder.is_correct_chip: the value returned
is_correct_chip(addr) == addr = DS3231_I2C_ADDRESS

\* Decoder.is_correct_chip: the warning it emits before returning False
chip_warning(d, addr) ==
    IF is_correct_chip(addr)
    THEN d
    ELSE put(d, d.ss, d.es, "WARNING", <<"Ignoring non-DS3231 data", addr>>)

\* Mutant of decode: READ RTC REGS accepts START REPEAT as WRITE RTC REGS
\* does.
decode_lenient(d0, ss, es, cmd, databyte) ==
    IF cmd = "BITS"
    THEN [d0 EXCEPT !.bits = databyte, !.out = <<>>]
    ELSE
    LET d == [d0 EXCEPT !.ss = ss, !.es = es, !.out = <<>>]
    IN  CASE d.state = "IDLE" ->
               IF cmd = "START" THEN [d EXCEPT !.state = "GET SLAVE ADDR"] ELSE d
          [] d.state = "GET SLAVE ADDR" ->
               IF cmd = "ADDRESS WRITE"
               THEN [chip_warning(d, databyte) EXCEPT !.state =
                        IF is_correct_chip(databyte) THEN "GET REG ADDR" ELSE "IDLE"]
               ELSE IF cmd = "ADDRESS READ"
               THEN [chip_warning(d, databyte) EXCEPT !.state =
                        IF is_correct_chip(databyte) THEN "READ RTC REGS" ELSE "IDLE"]
               ELSE d
          [] d.state = "GET REG ADDR" ->
               IF cmd = "DATA WRITE"
               THEN [d EXCEPT !.reg = databyte, !.state = "WRITE RTC REGS"]
               ELSE IF cmd = "STOP" THEN [d EXCEPT !.state = "IDLE"]
               ELSE d
          [] d.state = "WRITE RTC REGS" ->
               IF cmd = "START REPEAT" THEN [d EXCEPT !.state = "GET SLAVE ADDR"]
               ELSE IF cmd = "DATA WRITE" THEN handle_reg(d, databyte, "Wrote")
               ELSE IF cmd = "STOP" THEN [d EXCEPT !.state = "IDLE"]
               ELSE d
          [] d.state = "READ RTC REGS" ->
               IF cmd = "START REPEAT" THEN [d EXCEPT !.state = "GET SLAVE ADDR"]
               ELSE IF cmd = "DATA READ" THEN handle_reg(d, databyte, "Read")
               ELSE IF cmd = "STOP" THEN [d EXCEPT !.state = "IDLE"]
               ELSE d

\* Mutant of decode: START REPEAT sets the pointer back to the regptr option.
decode_rewinding(d0, ss, es, cmd, databyte) ==
    IF cmd = "BITS"
    THEN [d0 EXCEPT !.bits = databyte, !.out = <<>>]
    ELSE
    LET d == [d0 EXCEPT !.ss = ss, !.es = es, !.out = <<>>]
    IN  CASE d.state = "IDLE" ->
               IF cmd = "START" THEN [d EXCEPT !.state = "GET SLAVE ADDR"] ELSE d
          [] d.state = "GET SLAVE ADDR" ->
               IF cmd = "ADDRESS WRITE"
               THEN [chip_warning(d, databyte) EXCEPT !.state =
                        IF is_correct_chip(databyte) THEN "GET REG ADDR" ELSE "IDLE"]
               ELSE IF cmd = "ADDRESS READ"
               THEN [chip_warning(d, databyte) EXCEPT !.state =
                        IF is_correct_chip(databyte) THEN "READ RTC REGS" ELSE "IDLE"]
               ELSE d
          [] d.state = "GET REG ADDR" ->
               IF cmd = "DATA WRITE"
               THEN [d EXCEPT !.reg = databyte, !.state = "WRITE RTC REGS"]
               ELSE IF cmd = "STOP" THEN [d EXCEPT !.state = "IDLE"]
               ELSE d
          [] d.state = "WRITE RTC REGS" ->
               IF cmd = "START REPEAT"
               THEN [d EXCEPT !.state = "GET SLAVE ADDR", !.reg = d.options.regptr]
               ELSE IF cmd = "DATA WRITE" THEN handle_reg(d, databyte, "Wrote")
               ELSE IF cmd = "STOP" THEN [d EXCEPT !.state = "IDLE"]
               ELSE d
          [] d.state = "READ RTC REGS" ->
               IF cmd = "DATA READ" THEN handle_reg(d, databyte, "Read")
               ELSE IF cmd = "STOP" THEN [d EXCEPT !.state = "IDLE"]
               ELSE d

\* Decoder.decode(ss, es, data) with data = (cmd, databyte)
decode(d0, ss, es, cmd, databyte) ==
    IF cmd = "BITS"
    THEN [d0 EXCEPT !.bits = databyte, !.out = <<>>]
    ELSE
    LET d == [d0 EXCEPT !.ss = ss, !.es = es, !.out = <<>>]
    IN  CASE d.state = "IDLE" ->
               IF cmd = "START" THEN [d EXCEPT !.state = "GET SLAVE ADDR"] ELSE d
          [] d.state = "GET SLAVE ADDR" ->
               IF cmd = "ADDRESS WRITE"
               THEN [chip_warning(d, databyte) EXCEPT !.state =
                        IF is_correct_chip(databyte) THEN "GET REG ADDR" ELSE "IDLE"]
               ELSE IF cmd = "ADDRESS READ"
               THEN [chip_warning(d, databyte) EXCEPT !.state =
                        IF is_correct_chip(databyte) THEN "READ RTC REGS" ELSE "IDLE"]
               ELSE d
          [] d.state = "GET REG ADDR" ->
               IF cmd = "DATA WRITE"
               THEN [d EXCEPT !.reg = databyte, !.state = "WRITE RTC REGS"]
               ELSE IF cmd = "STOP" THEN [d EXCEPT !.state = "IDLE"]
               ELSE d
          [] d.state = "WRITE RTC REGS" ->
               IF cmd = "START REPEAT" THEN [d EXCEPT !.state = "GET SLAVE ADDR"]
               ELSE IF cmd = "DATA WRITE" THEN handle_reg(d, databyte, "Wrote")
               ELSE IF cmd = "STOP" THEN [d EXCEPT !.state = "IDLE"]
               ELSE d
          [] d.state = "READ RTC REGS" ->
               IF cmd = "DATA READ" THEN handle_reg(d, databyte, "Read")
               ELSE IF cmd = "STOP" THEN [d EXCEPT !.state = "IDLE"]
               ELSE d

----------------------------------------------------------------------------
(* The host: the primitives it delivers and the values they carry.         *)

\* Slave addresses on the bus: the DS3231 and another device (0x50).
Addrs == {DS3231_I2C_ADDRESS, 80}

\* Bytes written as register pointer: every register, and three values
\* outside the register file (0x13, 0x50, 0xff).
PtrBytes == (0..18) \cup {19, 80, 255}

\* Data bytes read from or written to register r.
RegBytes(r) ==
    CASE r = 0  -> {48}                 \* 0x30
      [] r = 1  -> {69}                 \* 0x45
      [] r = 2  -> {18, 114}            \* 0x12 (24h), 0x72 (12h, PM)
      [] r = 3  -> {3, 0}
      [] r = 4  -> {21}                 \* 0x15
      [] r = 5  -> {6}
      [] r = 6  -> {35}                 \* 0x23
      [] r = 7  -> {48, 128}            \* A1M1 = 0, 1
      [] r = 8  -> {69, 128}            \* A1M2 = 0, 1
      [] r = 9  -> {18, 128}            \* A1M3 = 0, 1
      [] r = 10 -> {21, 67, 128, 199}   \* A1M4 x DY/DT
      [] r = 11 -> {69, 128}            \* A2M2 = 0, 1
      [] r = 12 -> {18, 128}            \* A2M3 = 0, 1
      [] r = 13 -> {21, 67, 128, 199}   \* A2M4 x DY/DT
      [] r = 14 -> {0, 32, 28}
      [] r = 15 -> {0, 136}
      [] r = 16 -> {0, 255}
      [] r = 17 -> {25, 231}            \* 0x19, 0xe7
      [] r = 18 -> {192, 64}            \* 0xc0, 0x40
      [] OTHER  -> {0}

\* The bit positions of a BITS packet: eight [ss, es] spans, entry i + 1 for
\* bit i.  The host numbers the packets; v tells two packets apart.
BitsIds == {1, 2}

BitsPayload(v) ==
    [i \in 1..8 |-> [ss |-> (100 * v) + (10 * (8 - i)), es |-> (100 * v) + (10 * (8 - i)) + 9]]

----------------------------------------------------------------------------
(* Observers.                                                              *)

Prim(cmd, databyte) == <<cmd, databyte>>

OffScript == << Prim("OFF", 0) >>

\* spec, section 8: the date / time scenario
ScenarioDateTime ==
    << Prim("START", 0), Prim("ADDRESS WRITE", 104), Prim("DATA WRITE", 0),
       Prim("DATA WRITE", 48), Prim("DATA WRITE", 69), Prim("DATA WRITE", 18),
       Prim("DATA WRITE", 3), Prim("DATA WRITE", 21), Prim("DATA WRITE", 6),
       Prim("DATA WRITE", 35), Prim("STOP", 0) >>

\* spec, section 8: the wrong-address scenario, followed by a transaction
\* addressed to the DS3231
ScenarioWrongAddress ==
    << Prim("START", 0), Prim("ADDRESS WRITE", 80), Prim("STOP", 0),
       Prim("START", 0), Prim("ADDRESS WRITE", 104), Prim("DATA WRITE", 0),
       Prim("DATA WRITE", 48) >>

\* A temperature block whose first register is written and whose last
\* register is read.
ScenarioTempWriteRead ==
    << Prim("START", 0), Prim("ADDRESS WRITE", 104), Prim("DATA WRITE", 17),
       Prim("DATA WRITE", 25), Prim("START REPEAT", 0), Prim("ADDRESS READ", 104),
       Prim("DATA READ", 192) >>

\* A read of the date / time registers (regptr = 0) interrupted by STOP, START
\* and a new addressing after the second register.
ScenarioInterrupted ==
    << Prim("START", 0), Prim("ADDRESS READ", 104), Prim("DATA READ", 48),
       Prim("DATA READ", 69), Prim("STOP", 0),
       Prim("START", 0), Prim("ADDRESS READ", 104), Prim("DATA READ", 18),
       Prim("DATA READ", 3), Prim("DATA READ", 21), Prim("DATA READ", 6),
       Prim("DATA READ", 35) >>

Scenarios ==
    {ScenarioDateTime, ScenarioWrongAddress, ScenarioTempWriteRead, ScenarioInterrupted}

IsPrefix(s, t) == Len(s) <= Len(t) /\ SubSeq(t, 1, Len(s)) = s

HistNext(h, cmd, databyte) ==
    LET h2 == Append(h, Prim(cmd, databyte))
    IN  IF h # OffScript /\ \E sc \in Scenarios : IsPrefix(h2, sc) THEN h2 ELSE OffScript

\* Whether decode(cmd, databyte) in decoder state d runs a register handler.
Dispatches(d, cmd) ==
    /\ \/ d.state = "WRITE RTC REGS" /\ cmd = "DATA WRITE"
       \/ d.state = "READ RTC REGS" /\ cmd = "DATA READ"
    /\ d.reg \in 0..18
    /\ Len(d.bits) = 8

BlockAnns == {"BLOCK_DATE_TIME", "BLOCK_ALARM1", "BLOCK_ALARM2", "BLOCK_TEMPERATURE"}

\* The annotations of class ann in a sequence of annotations.
Only(evs, anns) == SelectSeq(evs, LAMBDA e : e.ann \in anns)

\* first7 summarises the first seven dispatches of a session: n = how many
\* were seen (at most 7 are recorded); prog = k when they were registers
\* 0 .. k-1 in this order and in one direction, else -1; cut = a transaction
\* ended (STOP or START REPEAT) between two of them; dt = the Date Time
\* blocks they emitted; s0 = start of the first (kept while prog > 0);
\* e6 = end of the seventh.
First7Init ==
    [n |-> 0, prog |-> 0, rw |-> "", cut |-> FALSE, dt |-> <<>>, s0 |-> -1, e6 |-> -1]

First7Next(f, d, d2, cmd) ==
    IF f.n >= 7 THEN f
    ELSE IF ~Dispatches(d, cmd)
    THEN [f EXCEPT !.cut = @ \/ (f.n >= 1 /\ f.prog # -1 /\ d2.state # d.state)]
    ELSE LET rw == IF cmd = "DATA WRITE" THEN "Wrote" ELSE "Read"
             prog == IF f.prog = f.n /\ d.reg = f.n /\ (f.n = 0 \/ f.rw = rw)
                     THEN f.n + 1 ELSE -1
         IN  [ n    |-> f.n + 1,
               prog |-> prog,
               rw   |-> IF prog = -1 THEN "" ELSE rw,
               cut  |-> IF prog = -1 THEN FALSE ELSE f.cut,
               dt   |-> f.dt \o Only(d2.out, {"BLOCK_DATE_TIME"}),
               s0   |-> IF prog = -1 THEN -1 ELSE IF f.n = 0 THEN d2.ss ELSE f.s0,
               e6   |-> IF f.n + 1 = 7 THEN d2.es ELSE -1 ]

\* seen: for each register the byte b last dispatched to it and the start at
\* of the primitive that carried it (-1 while there was none).
SeenInit == [r \in 0..18 |-> [b |-> -1, at |-> -1]]

SeenNext(sn, d, d2, cmd, databyte) ==
    IF Dispatches(d, cmd)
    THEN [sn EXCEPT ![d.reg] = [b |-> databyte, at |-> d2.ss]]
    ELSE sn

\* run: the register pointer p when it was last set (by the regptr option or
\* by a pointer write) and the number n of data bytes dispatched since.
RunNext(r, d, cmd, databyte) ==
    IF d.state = "GET REG ADDR" /\ cmd = "DATA WRITE" THEN [p |-> databyte, n |-> 0]
    ELSE IF Dispatches(d, cmd) THEN [r EXCEPT !.n = @ + 1]
    ELSE r

----------------------------------------------------------------------------
(* The state machine.                                                      *)

\* Decoder.__init__ (reset) and Decoder.start with the given options.
Started(st, rp, fd) ==
    [ f \in (DOMAIN reset) \cup {"options", "reg", "ss", "es", "out", "failed"} |->
        CASE f = "options" -> [subtype |-> st, regptr |-> rp, fdw |-> fd]
          [] f = "reg"     -> rp
          [] f = "ss"      -> 0
          [] f = "es"      -> 0
          [] f = "out"     -> <<>>
          [] f = "failed"  -> FALSE
          [] OTHER         -> reset[f] ]

\* One call of decode for a primitive other than BITS: the primitive spans
\* the samples following the previous primitive.  No primitive is delivered
\* after an exception has ended the session.
Primitive(cmd, databyte) ==
    /\ ~self.failed
    /\ self' = decode(self, self.es, self.es + 1, cmd, databyte)
    /\ hist' = HistNext(hist, cmd, databyte)
    /\ log' = IF hist' = OffScript THEN <<>> ELSE log \o self'.out
    /\ run' = RunNext(run, self, cmd, databyte)

\* One call of decode for a BITS packet.
BitsPrimitive(v) ==
    /\ ~self.failed
    /\ self' = decode(self, self.ss, self.es, "BITS", BitsPayload(v))
    /\ UNCHANGED <<hist, log, first7, run, last, armed, blocks, seen>>

(* Spec: a host that delivers any primitive at any time.                   *)

Init ==
    /\ \E st \in {"SN", "M"}, rp \in {0, 17}, fd \in {"Monday", "Sunday"} :
          self = Started(st, rp, fd)
    /\ hist = <<>>
    /\ log = <<>>
    /\ first7 = First7Init
    /\ run = [p |-> self.reg, n |-> 0]
    /\ last = <<>>
    /\ armed = {}
    /\ blocks = <<>>
    /\ seen = SeenInit

Deliver(cmd, databyte) ==
    /\ self.es < MaxSample
    /\ Primitive(cmd, databyte)
    /\ UNCHANGED <<first7, last, armed, blocks, seen>>

Start == Deliver("START", 0)

StartRepeat == Deliver("START REPEAT", 0)

Stop == Deliver("STOP", 0)

AddressWrite == \E a \in Addrs : Deliver("ADDRESS WRITE", a)

AddressRead == \E a \in Addrs : Deliver("ADDRESS READ", a)

DataWrite ==
    \E b \in (IF self.state = "GET REG ADDR" THEN PtrBytes ELSE RegBytes(self.reg)) :
        Deliver("DATA WRITE", b)

DataRead == \E b \in RegBytes(self.reg) : Deliver("DATA READ", b)

Bits == \E v \in BitsIds : BitsPrimitive(v)

Next ==
    \/ Start
    \/ StartRepeat
    \/ Stop
    \/ AddressWrite
    \/ AddressRead
    \/ DataWrite
    \/ DataRead
    \/ Bits

Spec == Init /\ [][Next]_vars

(* SpecDT: a host that delivers well-formed transactions on the date and   *)
(* time registers: each primitive is one the state machine has a           *)
(* transition for, and the default options are in force.                   *)

\* The primitives decode() acts on in state st.
Expected(st, cmd) ==
    CASE st = "IDLE"           -> cmd = "START"
      [] st = "GET SLAVE ADDR" -> cmd \in {"ADDRESS WRITE", "ADDRESS READ"}
      [] st = "GET REG ADDR"   -> cmd \in {"DATA WRITE", "STOP"}
      [] st = "WRITE RTC REGS" -> cmd \in {"START REPEAT", "DATA WRITE", "STOP"}
      [] st = "READ RTC REGS"  -> cmd \in {"DATA READ", "STOP"}

\* Register pointers the date / time host writes.
PtrBytesDT == (0..6) \cup {14}

DTInit ==
    /\ \E rp \in {0, 1} : self = Started("SN", rp, "Monday")
    /\ hist = <<>>
    /\ log = <<>>
    /\ first7 = First7Init
    /\ run = [p |-> self.reg, n |-> 0]
    /\ last = <<>>
    /\ armed = {}
    /\ blocks = <<>>
    /\ seen = SeenInit

WellFormed(cmd, databyte) ==
    /\ self.es < MaxSampleDT
    /\ Expected(self.state, cmd)
    /\ Primitive(cmd, databyte)
    /\ first7' = First7Next(first7, self, self', cmd)
    /\ UNCHANGED <<last, armed, blocks, seen>>

DTStart == WellFormed("START", 0)

DTStartRepeat == WellFormed("START REPEAT", 0)

DTStop == WellFormed("STOP", 0)

DTAddressWrite == WellFormed("ADDRESS WRITE", DS3231_I2C_ADDRESS)

DTAddressRead == WellFormed("ADDRESS READ", DS3231_I2C_ADDRESS)

DTDataWrite ==
    \E b \in (IF self.state = "GET REG ADDR" THEN PtrBytesDT ELSE RegBytes(self.reg)) :
        WellFormed("DATA WRITE", b)

DTDataRead == \E b \in RegBytes(self.reg) : WellFormed("DATA READ", b)

DTBits == BitsPrimitive(1)

DTNext ==
    \/ DTStart
    \/ DTStartRepeat
    \/ DTStop
    \/ DTAddressWrite
    \/ DTAddressRead
    \/ DTDataWrite
    \/ DTDataRead
    \/ DTBits

SpecDT == DTInit /\ [][DTNext]_vars

(* SpecByte: a host that reads the registers from the configured pointer   *)
(* on, one transaction, every byte value for the hours, control and        *)
(* temperature registers, and a BITS packet before the data bytes.         *)

\* Registers whose data byte ranges over all 256 values.
ByteRegs == {2, 9, 12, 14, 17, 18}

ByteValues(r) == IF r \in ByteRegs THEN 0..255 ELSE RegBytes(r)

ByteInit ==
    /\ \E o \in {<<"SN", 2>>, <<"SN", 9>>, <<"SN", 12>>, <<"SN", 14>>, <<"M", 14>>,
                  <<"SN", 17>>} :
          self = Started(o[1], o[2], "Monday")
    /\ hist = <<>>
    /\ log = <<>>
    /\ first7 = First7Init
    /\ run = [p |-> self.reg, n |-> 0]
    /\ last = <<>>
    /\ armed = {}
    /\ blocks = <<>>
    /\ seen = SeenInit

ByteProtocol(cmd, databyte) ==
    /\ self.es < MaxSampleByte
    /\ Expected(self.state, cmd)
    /\ Primitive(cmd, databyte)
    /\ UNCHANGED <<first7, armed, blocks, seen>>

ByteStart == ByteProtocol("START", 0) /\ UNCHANGED last

ByteAddressRead == ByteProtocol("ADDRESS READ", DS3231_I2C_ADDRESS) /\ UNCHANGED last

ByteBits == self.state = "READ RTC REGS" /\ self.bits = <<>> /\ BitsPrimitive(1)

ByteDataRead ==
    /\ self.bits # <<>>
    /\ \E b \in ByteValues(self.reg) :
          /\ ByteProtocol("DATA READ", b)
          /\ last' = Append(last, b)

ByteNext ==
    \/ ByteStart
    \/ ByteAddressRead
    \/ ByteBits
    \/ ByteDataRead

SpecByte == ByteInit /\ [][ByteNext]_vars

(* SpecBlock: a host that delivers well-formed transactions on the first   *)
(* and last registers of the four blocks, one byte value per register, and *)
(* a BITS packet before the first data byte.                               *)

\* The first and the last register of each block, by block annotation.
FirstReg ==
    [BLOCK_DATE_TIME |-> 0, BLOCK_ALARM1 |-> 7, BLOCK_ALARM2 |-> 11,
     BLOCK_TEMPERATURE |-> 17]

LastReg ==
    [BLOCK_DATE_TIME |-> 6, BLOCK_ALARM1 |-> 10, BLOCK_ALARM2 |-> 13,
     BLOCK_TEMPERATURE |-> 18]

\* Register pointers the block host writes.
PtrBytesBlock == {0, 6, 7, 10, 11, 13, 17, 18}

\* The data byte of register r.
BlockByte(r) ==
    CASE r = 0 -> 48 [] r = 1 -> 69 [] r = 2 -> 18 [] r = 3 -> 3 [] r = 4 -> 21
      [] r = 5 -> 6 [] r = 6 -> 35 [] r = 17 -> 25 [] r = 18 -> 192
      [] r \in {7, 8, 9, 11, 12} -> 128
      [] r \in {10, 13} -> 21
      [] OTHER -> 0

ArmedNext(a, d, d2, cmd) ==
    IF ~Dispatches(d, cmd) THEN a
    ELSE (a \cup {c \in BlockAnns : d.reg = FirstReg[c]})
            \ {c \in BlockAnns : Only(d2.out, {c}) # <<>>}

BlockInit ==
    /\ \E rp \in {0, 7, 11, 17} : self = Started("SN", rp, "Monday")
    /\ hist = <<>>
    /\ log = <<>>
    /\ first7 = First7Init
    /\ run = [p |-> self.reg, n |-> 0]
    /\ last = <<>>
    /\ armed = {}
    /\ blocks = <<>>
    /\ seen = SeenInit

BlockProtocol(cmd, databyte) ==
    /\ self.es < MaxSampleBlock
    /\ Expected(self.state, cmd)
    /\ cmd \in {"DATA WRITE", "DATA READ"} => self.bits # <<>>
    /\ Primitive(cmd, databyte)
    /\ armed' = ArmedNext(armed, self, self', cmd)
    /\ seen' = SeenNext(seen, self, self', cmd, databyte)
    /\ UNCHANGED <<first7, last, blocks>>

BlockStart == BlockProtocol("START", 0)

BlockStartRepeat == BlockProtocol("START REPEAT", 0)

BlockStop == BlockProtocol("STOP", 0)

BlockAddressWrite == BlockProtocol("ADDRESS WRITE", DS3231_I2C_ADDRESS)

BlockAddressRead == BlockProtocol("ADDRESS READ", DS3231_I2C_ADDRESS)

BlockPointerWrite ==
    /\ self.state = "GET REG ADDR"
    /\ \E b \in PtrBytesBlock : BlockProtocol("DATA WRITE", b)

\* The data bytes of register r: a second value for the seconds, the
\* Alarm2 minutes and the temperature MSB.
BlockBytes(r) ==
    {BlockByte(r)} \cup
        (CASE r = 0 -> {89} [] r = 11 -> {69} [] r = 17 -> {231} [] OTHER -> {})

BlockDataWrite ==
    /\ self.state = "WRITE RTC REGS"
    /\ \E b \in BlockBytes(self.reg) : BlockProtocol("DATA WRITE", b)

BlockDataRead == \E b \in BlockBytes(self.reg) : BlockProtocol("DATA READ", b)

BlockBits == self.state = "GET SLAVE ADDR" /\ self.bits = <<>> /\ BitsPrimitive(1)

BlockNext ==
    \/ BlockStart
    \/ BlockStartRepeat
    \/ BlockStop
    \/ BlockAddressWrite
    \/ BlockAddressRead
    \/ BlockPointerWrite
    \/ BlockDataWrite
    \/ BlockDataRead
    \/ BlockBits

SpecBlock == BlockInit /\ [][BlockNext]_vars

(* SpecSweep: a host that delivers one transaction, a write or a read,     *)
(* which goes through the registers from its pointer on without STOP or    *)
(* START REPEAT, with a BITS packet before the first data byte.            *)

\* Register pointers the sweeping host writes.
PtrBytesSweep == {0, 12}

\* The block events of the annotations evs, each paired with register r.
BlocksAt(r, evs) ==
    LET blk == Only(evs, BlockAnns)
    IN  [i \in 1..Len(blk) |-> <<r, blk[i].ann>>]

SweepInit ==
    /\ \E rp \in {0, 8} : self = Started("SN", rp, "Monday")
    /\ hist = <<>>
    /\ log = <<>>
    /\ first7 = First7Init
    /\ run = [p |-> self.reg, n |-> 0]
    /\ last = <<>>
    /\ armed = {}
    /\ blocks = <<>>
    /\ seen = SeenInit

SweepProtocol(cmd, databyte) ==
    /\ self.es < MaxSampleSweep
    /\ Expected(self.state, cmd)
    /\ cmd \notin {"STOP", "START REPEAT"}
    /\ cmd \in {"DATA WRITE", "DATA READ"} => self.bits # <<>>
    /\ Primitive(cmd, databyte)
    /\ blocks' = IF Dispatches(self, cmd)
                 THEN blocks \o BlocksAt(self.reg, self'.out)
                 ELSE blocks
    /\ UNCHANGED <<first7, last, armed, seen>>

SweepStart == SweepProtocol("START", 0)

SweepAddressWrite == SweepProtocol("ADDRESS WRITE", DS3231_I2C_ADDRESS)

SweepAddressRead == SweepProtocol("ADDRESS READ", DS3231_I2C_ADDRESS)

SweepPointerWrite ==
    /\ self.state = "GET REG ADDR"
    /\ \E b \in PtrBytesSweep : SweepProtocol("DATA WRITE", b)

SweepDataWrite ==
    /\ self.state = "WRITE RTC REGS"
    /\ \E b \in RegBytes(self.reg) : SweepProtocol("DATA WRITE", b)

SweepDataRead == \E b \in RegBytes(self.reg) : SweepProtocol("DATA READ", b)

SweepBits == self.state = "GET SLAVE ADDR" /\ self.bits = <<>> /\ BitsPrimitive(1)

SweepNext ==
    \/ SweepStart
    \/ SweepAddressWrite
    \/ SweepAddressRead
    \/ SweepPointerWrite
    \/ SweepDataWrite
    \/ SweepDataRead
    \/ SweepBits

SpecSweep == SweepInit /\ [][SweepNext]_vars

----------------------------------------------------------------------------
(* Properties.                                                             *)

RtcStates == {"WRITE RTC REGS", "READ RTC REGS"}

\* C1 (SpecDT): the first seven data bytes of a session emit exactly one
\* Date Time block, from the start of the first to the end of the seventh,
\* when they go to registers 0x00 .. 0x06 in increasing order, in one
\* direction, within one transaction; they emit no Date Time block when they
\* visit the registers in another order, skip one or change direction, and
\* fewer than seven data bytes emit none.
C1_BlockCompleteness ==
    /\ first7.n < 7 => first7.dt = <<>>
    /\ first7.n = 7 =>
          IF first7.prog = 7
          THEN ~first7.cut =>
                 /\ Len(first7.dt) = 1
                 /\ first7.dt[1].ss = first7.s0
                 /\ first7.dt[1].es = first7.e6
          ELSE first7.dt = <<>>

C1_Witness ==
    /\ first7.n = 7 /\ first7.prog = 7 /\ ~first7.cut
    /\ Len(first7.dt) = 1
    /\ first7.s0 < first7.e6

\* The Date Time blocks of the scenario of C3, with the weekday it names.
ScenarioDateTimeReports(weekday) ==
    LET blk == Only(log, BlockAnns)
    IN  /\ Len(blk) = 1
        /\ blk[1].ann = "BLOCK_DATE_TIME"
        /\ blk[1].val.rw = "Wrote"
        /\ blk[1].val.weekday = weekday
        /\ blk[1].val.date = 15 /\ blk[1].val.months = 6 /\ blk[1].val.year = 2023
        /\ blk[1].val.hours = 12 /\ blk[1].val.minutes = 45 /\ blk[1].val.seconds = 30
        /\ blk[1].val.ampm = ""

\* C3 as stated (SpecDT, firstDayOfWeek = Monday): the date / time scenario
\* emits exactly one Date Time block, reporting Tuesday, 15.06.2023, 12:45:30.
C3_ScenarioTuesday ==
    hist = ScenarioDateTime => ScenarioDateTimeReports("Tuesday")

\* C3 as amended (SpecDT, firstDayOfWeek = Monday): the date / time scenario
\* emits exactly one Date Time block, reporting Wednesday, 15.06.2023,
\* 12:45:30: weekday index 3 is the third entry of the Monday-first ordering.
C3_ScenarioWednesday ==
    hist = ScenarioDateTime => ScenarioDateTimeReports("Wednesday")

C3_Witness ==
    /\ hist = ScenarioDateTime
    /\ self.options.fdw = "Monday"
    /\ self.state = "IDLE" /\ self.days = 3

\* A data byte b is delivered in the state that dispatches it.
DispatchWith(b) ==
    \/ self.state = "WRITE RTC REGS" /\ Deliver("DATA WRITE", b)
    \/ self.state = "READ RTC REGS" /\ Deliver("DATA READ", b)

DataDispatch == \E b \in RegBytes(self.reg) : DispatchWith(b)

\* The direction handle_reg is called with in an RTC state.
Direction == IF self.state = "WRITE RTC REGS" THEN "Wrote" ELSE "Read"

\* The decoder without its protocol state, the span of the last primitive,
\* the annotations of the last primitive and the buffered bit positions:
\* the register pointer, the block state and the scratch fields.
Rest(d) == [d EXCEPT !.state = "", !.ss = 0, !.es = 0, !.out = <<>>, !.bits = <<>>]

\* C2 (Spec): N data bytes dispatched since the pointer was set to p in
\* [0x00, 0x12] leave it at (p + N) mod 19; a dispatch advances the pointer
\* by one modulo 19 and the only dispatch that decreases it is 0x12 -> 0x00.
C2_PointerSequence ==
    /\ [](run.p \in 0..18 => self.reg = (run.p + run.n) % 19)
    /\ [][ (DataDispatch /\ self.reg \in 0..18 /\ ~self'.failed) =>
              /\ self'.reg = (self.reg + 1) % 19
              /\ self'.reg < self.reg => (self.reg = 18 /\ self'.reg = 0) ]_vars

C2_Witness == run.p = 17 /\ run.n = 3 /\ self.reg = 1

\* C4 (Spec): an ADDRESS WRITE / ADDRESS READ of another device in GET SLAVE
\* ADDR emits exactly one warning, leads to IDLE and leaves the pointer, the
\* block state and the scratch fields alone; in IDLE every primitive but
\* START emits nothing and leaves them alone; START, ADDRESS WRITE(0x50),
\* STOP ends in IDLE with one warning and nothing else; and a following
\* START, ADDRESS WRITE(0x68), pointer 0x00, DATA WRITE(0x30) is decoded as
\* the seconds register.
C4_WrongAddress ==
    /\ [][ (self.state = "GET SLAVE ADDR" /\
             \E a \in Addrs \ {104} :
                 Deliver("ADDRESS WRITE", a) \/ Deliver("ADDRESS READ", a)) =>
              /\ self'.state = "IDLE"
              /\ Len(self'.out) = 1
              /\ self'.out[1].ann = "WARNING"
              /\ self'.out[1].ss = self'.ss /\ self'.out[1].es = self'.es
              /\ Rest(self') = Rest(self) ]_vars
    /\ [][ (self.state = "IDLE" /\ ~Start) =>
              /\ self'.state = "IDLE"
              /\ self'.out = <<>>
              /\ Rest(self') = Rest(self) ]_vars
    /\ [](hist = SubSeq(ScenarioWrongAddress, 1, 3) =>
              /\ self.state = "IDLE"
              /\ Len(log) = 1
              /\ log[1].ann = "WARNING"
              /\ log[1].val = <<"Ignoring non-DS3231 data", 80>>)
    /\ []((hist = ScenarioWrongAddress /\ ~self.failed) =>
              /\ [i \in 1..Len(log) |-> log[i].ann] =
                     <<"WARNING", "REG_SECONDS", "BIT_RESERVED", "BIT_SECONDS">>
              /\ log[4].val = <<30>>
              /\ self.state = "WRITE RTC REGS"
              /\ self.seconds = 30 /\ self.reg = 1 /\ self.inblock = 0)

C4_Witness == hist = ScenarioWrongAddress /\ ~self.failed /\ Len(log) = 4

\* C5 as stated (Spec): the register pointer is in [0x00, 0x12] in every
\* reachable state.
C5_PointerInRange == self.reg \in 0..18

\* C5 as amended (Spec): the register pointer is a byte in every reachable
\* state, and it leaves [0x00, 0x12] only when a DATA WRITE in GET REG ADDR
\* sets it to a byte above 0x12; a dispatch never takes it out of the range.
C5_PointerLeavesRangeOnlyByWrite ==
    /\ [](self.reg \in 0..255)
    /\ [][ (self.reg \in 0..18 /\ self'.reg \notin 0..18) =>
              (self.state = "GET REG ADDR" /\ DataWrite) ]_vars

C5_Witness ==
    /\ self.reg = 19 /\ run = [p |-> 19, n |-> 0]
    /\ self.out # <<>> /\ self.out[1].ann = "WARNING"

\* C6 (Spec): a data byte dispatched while the pointer is outside
\* [0x00, 0x12] emits exactly one warning, spanning the byte, and nothing
\* else, raises no exception, and leaves the pointer, the block state, the
\* scratch fields, the bit buffer and the protocol state as they were.
C6_OutOfRangeDispatch ==
    [][ (DataDispatch /\ self.reg \notin 0..18) =>
          /\ self'.out = << Event(self'.ss, self'.es, "WARNING",
                                  <<"Ignoring out-of-range register", self.reg>>) >>
          /\ [self' EXCEPT !.ss = 0, !.es = 0, !.out = <<>>]
                = [self EXCEPT !.ss = 0, !.es = 0, !.out = <<>>] ]_vars

C6_Witness ==
    /\ self.reg = 255 /\ self.state \in RtcStates /\ ~self.failed
    /\ Len(self.out) = 1 /\ self.out[1].ann = "WARNING"

\* C7 as stated (Spec): no sequence of primitives raises an exception.
C7_NeverFails == ~self.failed

\* C7 as amended (Spec): a primitive raises an exception only when it is a
\* data byte dispatched to a register in [0x00, 0x12] while no BITS packet
\* is buffered; with the eight bit positions of a BITS packet buffered every
\* primitive is processed to completion.
C7_FailsOnlyWithoutBits ==
    self.failed => (self.bits = <<>> /\ self.state \in RtcStates /\ self.reg \in 0..18)

C7_Witness ==
    /\ Len(self.bits) = 8 /\ ~self.failed
    /\ self.state \in RtcStates /\ Len(self.out) > 1

\* C8 as stated (SpecDT): when the transaction ends (STOP or START REPEAT)
\* between two of the date / time registers of a block, no Date Time block is
\* emitted for it.
C8_InterruptedEmitsNothing == first7.cut => first7.dt = <<>>

\* C9 as stated (Spec): a temperature block whose first register was written
\* and whose last register was read emits no block event.
C9_DirectionConsistency ==
    hist = ScenarioTempWriteRead => Only(log, BlockAnns) = <<>>

\* The meaning the Alarm1 table gives to the mask bits m = (A1M1 .. A1M4)
\* and the DY/DT selector.
A1Meaning(m, dydt) ==
    CASE m = <<1, 1, 1, 1>> -> "every second"
      [] m = <<0, 1, 1, 1>> -> "every minute"
      [] m = <<0, 0, 1, 1>> -> "every hour"
      [] m = <<0, 0, 0, 1>> -> "daily"
      [] m = <<0, 0, 0, 0>> -> IF dydt = 1 THEN "weekday" ELSE "day of month"
      [] OTHER -> "invalid setting"

\* C10 (Spec): the dispatch of byte b to 0x0a that completes an Alarm1 block
\* emits exactly one block event, an Alarm1 block whose meaning is the one
\* the table gives to (a1m1, a1m2, a1m3, bit 7 of b) and bit 6 of b; no
\* primitive emits two Alarm1 blocks.
C10_Alarm1ModeTable ==
    /\ [](Len(Only(self.out, {"BLOCK_ALARM1"})) <= 1)
    /\ [][ \A b \in RegBytes(10) :
              (DispatchWith(b) /\ self.reg = 10 /\ ~self'.failed /\
               self.inblock = 9 /\ self.blockmode = Direction) =>
                 LET blk == Only(self'.out, BlockAnns)
                 IN  /\ Len(blk) = 1
                     /\ blk[1].ann = "BLOCK_ALARM1"
                     /\ blk[1].val.text.mode =
                          A1Meaning(<<self.a1m1, self.a1m2, self.a1m3, Bit(b, 7)>>,
                                    Bit(b, 6)) ]_vars

C10_Witness ==
    LET blk == Only(self.out, {"BLOCK_ALARM1"})
    IN  /\ Len(blk) = 1
        /\ blk[1].val.text.mode = "invalid setting"
        /\ <<self.a1m1, self.a1m2, self.a1m3>> = <<1, 0, 1>>

\* Signed 8-bit two's-complement interpretation of a byte.
Signed8(b) == IF b < 128 THEN b ELSE b - 256

\* C11 (SpecByte): the bytes m and l read from 0x11 and 0x12 emit exactly one
\* block event, a Temperature block carrying theta = 4 * s(m) + (l >> 6),
\* s(m) the signed value of m; theta is in [-512, 511]; combining the
\* unsigned m and subtracting 1024 from a result >= 512 gives the same value;
\* and m = 0x19, l = 0xc0 give theta = 103.
C11_TemperatureCombination ==
    (self.options.regptr = 17 /\ Len(last) = 2) =>
        LET m == last[1]
            l == last[2]
            u == (m * 4) + (l \div 64)
            blk == Only(self.out, BlockAnns)
        IN  /\ Len(blk) = 1
            /\ blk[1].ann = "BLOCK_TEMPERATURE"
            /\ blk[1].val.theta = (4 * Signed8(m)) + (l \div 64)
            /\ blk[1].val.theta \in -512..511
            /\ (IF u >= 512 THEN u - 1024 ELSE u) = (4 * Signed8(m)) + (l \div 64)
            /\ (m = 25 /\ l = 192) => blk[1].val.theta = 103

C11_Witness ==
    /\ self.options.regptr = 17 /\ last = <<128, 63>>
    /\ Only(self.out, BlockAnns) # <<>>
    /\ Only(self.out, BlockAnns)[1].val.theta = -512

\* The transition table of the specification, section 4.1: the primitives
\* that have a row in state st.
TableRow(st, cmd) ==
    \/ st = "IDLE" /\ cmd = "START"
    \/ st = "GET SLAVE ADDR" /\ cmd \in {"ADDRESS WRITE", "ADDRESS READ"}
    \/ st = "GET REG ADDR" /\ cmd \in {"DATA WRITE", "STOP"}
    \/ st = "WRITE RTC REGS" /\ cmd \in {"START REPEAT", "DATA WRITE", "STOP"}
    \/ st = "READ RTC REGS" /\ cmd \in {"DATA READ", "STOP"}

\* The primitive cmd is delivered, with any of the values the host gives it.
Delivered(cmd) ==
    CASE cmd = "START"         -> Start
      [] cmd = "START REPEAT"  -> StartRepeat
      [] cmd = "STOP"          -> Stop
      [] cmd = "ADDRESS WRITE" -> AddressWrite
      [] cmd = "ADDRESS READ"  -> AddressRead
      [] cmd = "DATA WRITE"    -> DataWrite
      [] cmd = "DATA READ"     -> DataRead

Cmds ==
    {"START", "START REPEAT", "STOP", "ADDRESS WRITE", "ADDRESS READ",
     "DATA WRITE", "DATA READ"}

\* C12 (Spec): a primitive other than BITS that has no row for the current
\* protocol state in the transition table emits no event and leaves the
\* protocol state, the register pointer, the block state, the scratch fields
\* and the buffered bit positions unchanged.
C12_UnmatchedIgnored ==
    [][ \A cmd \in Cmds :
          (~TableRow(self.state, cmd) /\ Delivered(cmd)) =>
             /\ self'.out = <<>>
             /\ self'.state = self.state
             /\ self'.bits = self.bits
             /\ Rest(self') = Rest(self) ]_vars

\* 0x11 was read over [2, 3] and the primitive over [3, 4] was ignored.
C12_Witness ==
    /\ self.state = "READ RTC REGS" /\ self.options.regptr = 17
    /\ self.startreg = 2 /\ self.inblock = 17 /\ self.tempMSB # -1
    /\ self.es = 4 /\ self.reg = 18

\* The bits of the control register each rendered field is made of.
ControlFields ==
    [ BIT__EOSC |-> {7}, BIT_BBSQWE |-> {6}, BIT_CONV |-> {5}, BIT_INTCN |-> {2},
      BIT_A2IE |-> {1}, BIT_A1IE |-> {0} ]

\* The events of class ann a dispatch of byte b to 0x0e emits, the decoder
\* being as it is in the current state.
ControlEvents(b, ann) ==
    Only(handle_reg_0x0e([self EXCEPT !.out = <<>>], b, "Read").out, {ann})

\* C13 as stated (SpecByte): the events of each field of a byte read from
\* 0x0e are those of every other byte that has the same value in the bits of
\* this field (bit 7, bit 6, bit 5, bit 2, bit 1, bit 0); in particular the
\* pin-select events of two bytes that differ only in bit 5 are identical.
C13_ControlPerBit ==
    (self.options.regptr = 14 /\ Len(last) = 1) =>
        \A ann \in DOMAIN ControlFields :
            /\ Only(self.out, {ann}) = ControlEvents(last[1], ann)
            /\ Only(self.out, {ann}) # <<>>
            /\ \A b2 \in 0..255 :
                  (\A i \in ControlFields[ann] : Bit(b2, i) = Bit(last[1], i)) =>
                      ControlEvents(b2, ann) = Only(self.out, {ann})

\* The register annotations of the registers that belong to no block.
StandaloneAnns == {"REG_CONTROL", "REG_CONTROL_STATUS", "REG_AGING_OFFSET"}

\* C14 as stated (Spec): after a data byte has been dispatched to one of the
\* standalone registers 0x0e, 0x0f, 0x10, no block is in progress: the block
\* index is -1.
C14_StandaloneBreaksBlock ==
    (self.out # <<>> /\ self.out[1].ann \in StandaloneAnns) => self.inblock = -1

\* The register annotations of the last registers of the four blocks.
LastRegAnns ==
    {"REG_YEAR", "REG_ALARM1_DAY_DATE", "REG_ALARM2_DAY_DATE", "REG_TEMPERATURE_LSB"}

\* C15 (SpecBlock): after every dispatch to the last register of a block
\* (0x06, 0x0a, 0x0d, 0x12) the block index is -1, with or without a block
\* event; a dispatch emits at most one block event of a category; and a block
\* event of a category is emitted only when the first register of its block
\* has been dispatched since the previous block event of this category, so
\* that the block events of a category never outnumber the dispatches to its
\* first register.
C15_ResetAfterLast ==
    /\ []((self.out # <<>> /\ self.out[1].ann \in LastRegAnns) => self.inblock = -1)
    /\ [](\A c \in BlockAnns : Len(Only(self.out, {c})) <= 1)
    /\ [][ \A c \in BlockAnns : Only(self'.out, {c}) # <<>> => c \in armed ]_vars

\* 0x11 and 0x12 were read and emitted a Temperature block, and 0x12,
\* written after a pointer write, emitted none.
C15_Witness ==
    /\ self.options.regptr = 17 /\ self.tempMSB = 25
    /\ "BLOCK_TEMPERATURE" \notin armed
    /\ run = [p |-> 18, n |-> 1]
    /\ self.out # <<>> /\ self.out[1].ann = "REG_TEMPERATURE_LSB"
    /\ Only(self.out, BlockAnns) = <<>>
    /\ self.inblock = -1

\* The register annotation each register handler starts with.
RegAnn(r) ==
    << "REG_SECONDS", "REG_MINUTES", "REG_HOURS", "REG_DAY", "REG_DATE", "REG_MONTH",
       "REG_YEAR", "REG_ALARM1_SECONDS", "REG_ALARM1_MINUTES", "REG_ALARM1_HOURS",
       "REG_ALARM1_DAY_DATE", "REG_ALARM2_MINUTES", "REG_ALARM2_HOURS",
       "REG_ALARM2_DAY_DATE", "REG_CONTROL", "REG_CONTROL_STATUS", "REG_AGING_OFFSET",
       "REG_TEMPERATURE_MSB", "REG_TEMPERATURE_LSB" >>[r + 1]

\* C16 (Spec): a DATA WRITE(b) in GET REG ADDR sets the pointer to b, leads to
\* WRITE RTC REGS, emits nothing and touches neither block state nor scratch
\* fields; START, START REPEAT, STOP, ADDRESS WRITE and ADDRESS READ never
\* change the pointer, so that the pointer is the one last set as long as no
\* data byte has been dispatched; START REPEAT in WRITE RTC REGS followed by
\* ADDRESS READ(0x68) leads to READ RTC REGS; and a DATA READ there is
\* dispatched to the register the pointer names, with direction Read.
C16_PointerSetAndPreserved ==
    /\ [][ \A b \in PtrBytes :
              (self.state = "GET REG ADDR" /\ Deliver("DATA WRITE", b)) =>
                 /\ self'.reg = b
                 /\ self'.state = "WRITE RTC REGS"
                 /\ self'.out = <<>>
                 /\ [Rest(self') EXCEPT !.reg = 0] = [Rest(self) EXCEPT !.reg = 0] ]_vars
    /\ [][ (Start \/ StartRepeat \/ Stop \/ AddressWrite \/ AddressRead) =>
              self'.reg = self.reg ]_vars
    /\ [](run.n = 0 => self.reg = run.p)
    /\ [][ (self.state = "WRITE RTC REGS" /\ StartRepeat) =>
              self'.state = "GET SLAVE ADDR" ]_vars
    /\ [][ (self.state = "GET SLAVE ADDR" /\ Deliver("ADDRESS READ", 104)) =>
              self'.state = "READ RTC REGS" ]_vars
    /\ [][ (self.state = "READ RTC REGS" /\ DataRead /\ self.reg \in 0..18 /\
             ~self'.failed) =>
              /\ self'.state = "READ RTC REGS"
              /\ self'.out # <<>> /\ self'.out[1].ann = RegAnn(self.reg)
              /\ \A i \in 1..Len(self'.out) :
                    self'.out[i].ann \in BlockAnns => self'.out[i].val.rw = "Read"
              /\ self.reg \in {0, 7, 11} => self'.blockmode = "Read" ]_vars

\* The pointer was written as 0x0b and the first data byte read afterwards
\* went to 0x0b.
C16_Witness ==
    /\ run = [p |-> 11, n |-> 1] /\ self.options.regptr # 11
    /\ self.state = "READ RTC REGS" /\ self.reg = 12
    /\ self.out # <<>> /\ self.out[1].ann = "REG_ALARM2_MINUTES"
    /\ self.blockmode = "Read"

\* C17 (Spec): a BITS packet replaces the buffered bit positions by its own
\* and changes nothing else and emits nothing; every register and bit event
\* of a dispatched data byte starts at the start of one and ends at the end
\* of one of the bit positions buffered when the byte arrives, the register
\* event spanning bit 7 to bit 0; so a packet followed by another packet is
\* never applied.
C17_BitsBuffering ==
    /\ [][ \A v \in BitsIds :
              BitsPrimitive(v) =>
                 /\ self'.bits = BitsPayload(v)
                 /\ self'.out = <<>>
                 /\ [self' EXCEPT !.bits = <<>>, !.out = <<>>]
                       = [self EXCEPT !.bits = <<>>, !.out = <<>>] ]_vars
    /\ [][ (DataDispatch /\ self.reg \in 0..18 /\ ~self'.failed) =>
              /\ self'.bits = self.bits
              /\ self'.out # <<>>
              /\ self'.out[1].ss = self.bits[8].ss /\ self'.out[1].es = self.bits[1].es
              /\ \A i \in 1..Len(self'.out) :
                    self'.out[i].ann \notin BlockAnns =>
                       \E j, k \in 1..8 :
                          /\ self'.out[i].ss = self.bits[j].ss
                          /\ self'.out[i].es = self.bits[k].es ]_vars

\* A data byte was dispatched with the second packet buffered.
C17_Witness ==
    /\ self.bits = BitsPayload(2) /\ self.state \in RtcStates /\ ~self.failed
    /\ Len(self.out) > 1
    /\ self.out[1].ss = 200 /\ self.out[1].es = 279
    /\ self.out[2].ss >= 200

\* The events of a dispatch to 0x0e that are neither the rate field nor
\* reserved bits.
Ungated(evs) == SelectSeq(evs, LAMBDA e : e.ann \notin {"BIT_RATE", "BIT_RESERVED"})

\* C18 (SpecByte): a byte b read from 0x0e emits, with subtype SN, exactly one
\* rate event, over bits 4 .. 3, with the rate of index (b >> 3) & 3, and no
\* reserved-bit event; with subtype M no rate event and exactly two
\* reserved-bit events, for bit 4 and for bit 3; and its other events are
\* those the other subtype emits for b.
C18_SubtypeGating ==
    (self.options.regptr = 14 /\ Len(last) = 1) =>
        LET b == last[1]
            rate == Only(self.out, {"BIT_RATE"})
            resv == Only(self.out, {"BIT_RESERVED"})
            st2 == IF self.options.subtype = "SN" THEN "M" ELSE "SN"
            out2 == handle_reg_0x0e(
                       [self EXCEPT !.out = <<>>, !.options.subtype = st2], b, "Read").out
        IN  /\ self.options.subtype = "SN" =>
                  /\ rate = << Event(self.bits[5].ss, self.bits[4].es, "BIT_RATE",
                                     <<rates((b \div 8) % 4)>>) >>
                  /\ resv = <<>>
            /\ self.options.subtype = "M" =>
                  /\ rate = <<>>
                  /\ resv = << Event(self.bits[5].ss, self.bits[5].es, "BIT_RESERVED", <<>>),
                               Event(self.bits[4].ss, self.bits[4].es, "BIT_RESERVED", <<>>) >>
            /\ Len(Ungated(self.out)) = 7
            /\ Ungated(self.out) = Ungated(out2)

C18_Witness ==
    /\ self.options.regptr = 14 /\ self.options.subtype = "M" /\ last = <<24>>
    /\ Len(Only(self.out, {"BIT_RESERVED"})) = 2
    /\ Only(self.out, {"BIT_RATE"}) = <<>>

\* BCD(x) = (x >> 4) * 10 + (x & 0x0f)
BCD(x) == ((x \div 16) * 10) + (x % 16)

\* The (mode, meridiem, hour) triple of an hours byte b.
HourTriple(b) ==
    IF Bit(b, 6) = 1
    THEN << "12-hour mode", IF Bit(b, 5) = 1 THEN "PM" ELSE "AM", BCD(b % 32) >>
    ELSE << "24-hour mode", "", BCD(b % 64) >>

\* What the hours register r (0x02, 0x09, 0x0c) has decoded: the mode
\* rendered and the meridiem and hour stored.
HoursDecoded(r) ==
    << Only(self.out, {"BIT_12_24_HOURS"})[1].val[1],
       CASE r = 2 -> self.ampm [] r = 9 -> self.a1ampm [] r = 12 -> self.a2ampm,
       CASE r = 2 -> self.hours [] r = 9 -> self.al1hours [] r = 12 -> self.al2hours >>

\* C19 (SpecByte): for every byte b read from 0x02, 0x09 or 0x0c the register
\* decodes the triple HourTriple(b), the same for the three registers: it
\* renders the mode once, the meridiem exactly in 12-hour mode and the hour
\* once.
C19_HourDecoding ==
    (self.options.regptr \in {2, 9, 12} /\ Len(last) = 1) =>
        LET t == HourTriple(last[1])
            mer == Only(self.out, {"BIT_AM_PM"})
            hrs == Only(self.out, {"BIT_HOURS"})
        IN  /\ Len(Only(self.out, {"BIT_12_24_HOURS"})) = 1
            /\ HoursDecoded(self.options.regptr) = t
            /\ mer = IF t[1] = "12-hour mode"
                     THEN << Event(self.bits[6].ss, self.bits[6].es, "BIT_AM_PM", <<t[2]>>) >>
                     ELSE <<>>
            /\ Len(hrs) = 1 /\ hrs[1].val = <<t[3]>>

C19_Witness ==
    /\ self.options.regptr = 12 /\ last = <<242>>
    /\ self.al2hours = 12 /\ self.a2ampm = "PM" /\ self.a2m3 = 1

\* The meaning the Alarm2 table gives to the mask bits m = (A2M2, A2M3, A2M4)
\* and the DY/DT selector.
A2Meaning(m, dydt) ==
    CASE m = <<1, 1, 1>> -> "every minute"
      [] m = <<0, 1, 1>> -> "every hour"
      [] m = <<0, 0, 1>> -> "every day"
      [] m = <<0, 0, 0>> -> IF dydt = 1 THEN "weekday" ELSE "day of month"
      [] OTHER -> "invalid setting"

\* C20 (Spec): the dispatch of byte b to 0x0d that completes an Alarm2 block
\* emits exactly one block event, an Alarm2 block whose meaning is the one
\* the table gives to (a2m2, a2m3, bit 7 of b) and bit 6 of b; no primitive
\* emits two Alarm2 blocks.
C20_Alarm2ModeTable ==
    /\ [](Len(Only(self.out, {"BLOCK_ALARM2"})) <= 1)
    /\ [][ \A b \in RegBytes(13) :
              (DispatchWith(b) /\ self.reg = 13 /\ ~self'.failed /\
               self.inblock = 12 /\ self.blockmode = Direction) =>
                 LET blk == Only(self'.out, BlockAnns)
                 IN  /\ Len(blk) = 1
                     /\ blk[1].ann = "BLOCK_ALARM2"
                     /\ blk[1].val.text.mode =
                          A2Meaning(<<self.a2m2, self.a2m3, Bit(b, 7)>>, Bit(b, 6)) ]_vars

C20_Witness ==
    LET blk == Only(self.out, {"BLOCK_ALARM2"})
    IN  /\ Len(blk) = 1
        /\ blk[1].val.text.mode = "invalid setting"
        /\ <<self.a2m2, self.a2m3>> = <<1, 0>>

\* C21 (SpecSweep): 19 data bytes dispatched in one transaction and one
\* direction from pointer 0x00 emit exactly four block events, Date Time at
\* 0x06, Alarm1 at 0x0a, Alarm2 at 0x0d and Temperature at 0x12, in this
\* order, and none at 0x0e, 0x0f, 0x10, and leave the pointer at 0x00 and the
\* block index at -1; a block event is emitted only by the dispatch to the
\* last register of its block, and a dispatch emits at most one.
C21_FullSweep ==
    /\ (run.p = 0 /\ run.n = 19) =>
          /\ blocks = << <<6, "BLOCK_DATE_TIME">>, <<10, "BLOCK_ALARM1">>,
                         <<13, "BLOCK_ALARM2">>, <<18, "BLOCK_TEMPERATURE">> >>
          /\ self.reg = 0
          /\ self.inblock = -1
    /\ \A i \in 1..Len(blocks) : blocks[i][1] = LastReg[blocks[i][2]]
    /\ Len(Only(self.out, BlockAnns)) <= 1

C21_Witness ==
    /\ run = [p |-> 0, n |-> 19] /\ self.state = "WRITE RTC REGS"
    /\ Len(blocks) = 4 /\ self.reg = 0
    /\ Only(self.out, BlockAnns) # <<>>

\* The scratch fields each block event is rendered from, each with the
\* register whose handler assigns it.
ScratchOf ==
    [ BLOCK_DATE_TIME |->
        { <<0, "seconds">>, <<1, "minutes">>, <<2, "hours">>, <<2, "ampm">>,
          <<3, "days">>, <<4, "date">>, <<5, "months">> },
      BLOCK_ALARM1 |->
        { <<7, "a1m1">>, <<7, "al1seconds">>, <<8, "a1m2">>, <<8, "al1minutes">>,
          <<9, "a1m3">>, <<9, "al1hours">>, <<9, "a1ampm">> },
      BLOCK_ALARM2 |->
        { <<11, "a2m2">>, <<11, "al2minutes">>, <<12, "a2m3">>, <<12, "al2hours">>,
          <<12, "a2ampm">> },
      BLOCK_TEMPERATURE |-> { <<17, "tempMSB">> } ]

\* The value of field f after Decoder.reset.
Sentinel(f) == reset[f]

\* The value the handler of register r assigns to field f for the byte last
\* dispatched to r.
Decoded(r, f) == fn([self EXCEPT !.reg = r, !.out = <<>>], seen[r].b, "Read")[f]

\* C22 (SpecBlock): when a block event is emitted, each scratch field it is
\* rendered from is not the sentinel of reset and holds the value decoded
\* from the byte last dispatched to its register, and this dispatch lies
\* within the block: not before the start of the block event and not after
\* the dispatch that emits it.
C22_NoSentinelInBlock ==
    \A i \in 1..Len(self.out) :
        self.out[i].ann \in BlockAnns =>
            \A rf \in ScratchOf[self.out[i].ann] :
                /\ seen[rf[1]].b # -1
                /\ self[rf[2]] # Sentinel(rf[2])
                /\ self[rf[2]] = Decoded(rf[1], rf[2])
                /\ self.out[i].ss <= seen[rf[1]].at
                /\ seen[rf[1]].at < self.ss

\* A Temperature block of the second MSB value, the seconds register having
\* been dispatched before.
C22_Witness ==
    /\ Only(self.out, {"BLOCK_TEMPERATURE"}) # <<>>
    /\ self.tempMSB = 231 /\ seen[17].b = 231
    /\ self.seconds = 59 /\ seen[0].at < seen[17].at

\* C23 (SpecBlock): the start of a block event is the start of the most
\* recent dispatch to the first register of its own block, is not the start
\* of the most recent dispatch to the first register of another block, and is
\* not later than the end of the event.
C23_StartMarker ==
    \A i \in 1..Len(self.out) :
        self.out[i].ann \in BlockAnns =>
            LET e == self.out[i]
            IN  /\ seen[FirstReg[e.ann]].at # -1
                /\ e.ss = seen[FirstReg[e.ann]].at
                /\ \A c \in BlockAnns \ {e.ann} : e.ss # seen[FirstReg[c]].at
                /\ e.ss <= e.es

\* A Temperature block emitted after the first register of the Alarm2 block
\* had set the start marker.
C23_Witness ==
    /\ Only(self.out, {"BLOCK_TEMPERATURE"}) # <<>>
    /\ seen[11].at # -1 /\ seen[11].at < seen[17].at
    /\ self.startreg = seen[17].at
    /\ self.a2m2 # -1

====
